---- MODULE Spec2Model ----
(***************************************************************************)
(* Model of src/main.py: the n-th prime by Rosser/Dusart bound estimation  *)
(* (location_approximator), Miller-Rabin testing (miller_rabin) and the    *)
(* sequential search (nth_prime).                                          *)
(*                                                                         *)
(* Spec     one call of nth_prime after another, with the bounds that      *)
(*          location_approximator computes.                                *)
(* SpecAny  one call of nth_prime with an arbitrary bound pair >= 2 in     *)
(*          place of the estimator's, under weak fairness of the steps.    *)
(* SpecFn   the two leaf functions applied to an input drawn from a range. *)
(***************************************************************************)
EXTENDS Integers, Sequences, FiniteSets, TLC

(* ------------------------------ bounds -------------------------------- *)

\* the indices n passed to nth_prime / location_approximator are -MaxNeg..MaxN
MaxNeg == 2
MaxN == 14
\* largest number handed to miller_rabin on its own
MaxNum == 600
\* arbitrary bound pairs are drawn from 2..MaxBound, for n in 1..MaxNAny
MaxBound == 16
MaxNAny == 6
\* cap on the candidate in the loop guards
MaxCandidate == 70

(* ------------------- floating point, as fixed point -------------------- *)

\* A float v is represented by the integer nearest to v * Scale.
Scale == 32768

\* ln 2, in units of 1/Scale
Ln2 == 22713

\* a / b rounded to the nearest integer, for a >= 0 and b > 0
RDiv(a, b) == (2 * a + b) \div (2 * b)

\* number of halvings that bring x >= Scale into [Scale, 2*Scale)
RECURSIVE Halvings(_)
Halvings(x) == IF x < 2 * Scale THEN 0 ELSE 1 + Halvings(x \div 2)

\* x >= Scale brought into [Scale, 2*Scale) by halving
RECURSIVE Mantissa(_)
Mantissa(x) == IF x < 2 * Scale THEN x ELSE Mantissa(x \div 2)

\* sum of t/(2i+1) over the odd powers t = z, z^3, z^5, ... (terms of them)
RECURSIVE AtanhSeries(_, _, _, _)
AtanhSeries(t, z2, i, terms) ==
    IF i >= terms THEN 0
    ELSE RDiv(t, 2 * i + 1) + AtanhSeries(RDiv(t * z2, Scale), z2, i + 1, terms)

\* math.log(x) for a float x >= 1:  ln x = k ln 2 + 2 atanh((m-1)/(m+1)),
\* where x = m * 2^k and 1 <= m < 2
MathLog(x) ==
    LET m  == Mantissa(x)
        z  == RDiv((m - Scale) * Scale, m + Scale)
        z2 == RDiv(z * z, Scale)
    IN  Halvings(x) * Ln2 + 2 * AtanhSeries(z, z2, 0, 5)

\* math.log raises ValueError ("math domain error") outside x > 0
MathLogRaises(x) == x <= 0

\* int(v): truncation of a float towards zero
IntOf(v) == IF v >= 0 THEN v \div Scale ELSE -((-v) \div Scale)

\* float product and quotient
FMul(a, b) == (a * b) \div Scale
FDiv(a, b) == (a * Scale) \div b

(* ------------------------ location_approximator ----------------------- *)

DusartThreshold == 688383

\* Rosser-Schoenfeld:  int(n * (ln_n + ln_ln_n))  without the "- 1"
RSLowerNoMinusOne(n, ln_n, ln_ln_n) == IntOf(n * (ln_n + ln_ln_n))

\* Rosser-Schoenfeld:  int(n * (ln_n + ln_ln_n - 1))
RSLower(n, ln_n, ln_ln_n) == IntOf(n * (ln_n + ln_ln_n - Scale))

\* Rosser-Schoenfeld upper bound without the ln ln n term
RSUpperNoLnLn(n, ln_n, ln_ln_n) == IntOf(n * ln_n) + 1

\* Rosser-Schoenfeld:  int(n * (ln_n + ln_ln_n)) + 1
RSUpper(n, ln_n, ln_ln_n) == IntOf(n * (ln_n + ln_ln_n)) + 1

\* Dusart:  int(n * (ln_n + ln_ln_n - 1 + lower_term - lower_correction))
DusartLower(n, ln_n, ln_ln_n) ==
    LET lower_term == FDiv(ln_ln_n - 2 * Scale, ln_n)
        lower_correction ==
            FDiv(FMul(ln_ln_n, ln_ln_n) - 6 * ln_ln_n + (11321 * Scale) \div 1000,
                 2 * FMul(ln_n, ln_n))
    IN  IntOf(n * (ln_n + ln_ln_n - Scale + lower_term - lower_correction))

\* Dusart:  int(n * (ln_n + ln_ln_n - 1 + upper_term - upper_correction)) + 1
DusartUpper(n, ln_n, ln_ln_n) ==
    LET upper_term == FDiv(ln_ln_n - 2 * Scale, ln_n)
        upper_correction ==
            FDiv(FMul(ln_ln_n, ln_ln_n) - 6 * ln_ln_n, 2 * FMul(ln_n, ln_n))
    IN  IntOf(n * (ln_n + ln_ln_n - Scale + upper_term - upper_correction)) + 1

\* the odd-start adjustment without the "lower_bound > 2" test
OddStartAlways(lower) == IF lower % 2 = 0 THEN lower + 1 ELSE lower

\* "if lower_bound > 2 and lower_bound % 2 == 0: lower_bound += 1"
OddStart(lower) == IF lower > 2 /\ lower % 2 = 0 THEN lower + 1 ELSE lower

Bounds(lo, up) == [raised |-> FALSE, lower |-> lo, upper |-> up]
ValueError == [raised |-> TRUE, lower |-> 0, upper |-> 0]

\* the three assignments to (lower_bound, upper_bound), in program order,
\* each overriding the one before it, then the odd-start adjustment
BoundsFromLogs(n, ln_n, ln_ln_n) ==
    LET rs == IF n >= 6
              THEN Bounds(RSLower(n, ln_n, ln_ln_n), RSUpper(n, ln_n, ln_ln_n))
              ELSE Bounds(0, 0)
        du == IF n >= DusartThreshold
              THEN Bounds(DusartLower(n, ln_n, ln_ln_n), DusartUpper(n, ln_n, ln_ln_n))
              ELSE rs
        sm == IF n < 6 THEN Bounds(2, 30) ELSE du
    IN  Bounds(OddStart(sm.lower), sm.upper)

\* location_approximator with the "n < 6" case decided before the logarithms
LocationApproximatorSmallFirst(n) ==
    IF n = 1 THEN Bounds(2, 2)
    ELSE IF n = 2 THEN Bounds(3, 3)
    ELSE IF n = 3 THEN Bounds(5, 5)
    ELSE IF n < 6 THEN Bounds(2, 30)
    ELSE BoundsFromLogs(n, MathLog(n * Scale), MathLog(MathLog(n * Scale)))

\* location_approximator(n): the bound pair, or the ValueError of math.log
LocationApproximator(n) ==
    IF n = 1 THEN Bounds(2, 2)
    ELSE IF n = 2 THEN Bounds(3, 3)
    ELSE IF n = 3 THEN Bounds(5, 5)
    ELSE IF MathLogRaises(n) THEN ValueError
    ELSE LET ln_n == MathLog(n * Scale)
         IN  IF MathLogRaises(ln_n) THEN ValueError
             ELSE BoundsFromLogs(n, ln_n, MathLog(ln_n))

(* ----------------------------- miller_rabin --------------------------- *)

Witnesses == <<2, 3, 5, 7, 11, 13, 17>>

\* pow(a, e, m) by square and multiply
RECURSIVE ModPow(_, _, _)
ModPow(a, e, m) ==
    IF e = 0 THEN 1 % m
    ELSE LET h  == ModPow(a, e \div 2, m)
             sq == (h * h) % m
         IN  IF e % 2 = 1 THEN (sq * a) % m ELSE sq

\* "while d % 2 == 0: r += 1; d //= 2", started from d = num - 1
RECURSIVE TwoExponent(_)
TwoExponent(d) == IF d % 2 = 0 THEN 1 + TwoExponent(d \div 2) ELSE 0

RECURSIVE OddPart(_)
OddPart(d) == IF d % 2 = 0 THEN OddPart(d \div 2) ELSE d

\* the squaring loop that never looks at x
SquaringSkipped(x, times, num) == FALSE

\* "for _ in range(r - 1)": TRUE iff some squaring of x reaches num - 1
RECURSIVE SquaringReaches(_, _, _)
SquaringReaches(x, times, num) ==
    IF times <= 0 THEN FALSE
    ELSE LET y == (x * x) % num
         IN  y = num - 1 \/ SquaringReaches(y, times - 1, num)

\* one witness a < num passes
WitnessPasses(a, num, r, d) ==
    LET x == ModPow(a, d, num)
    IN  x = 1 \/ x = num - 1 \/ SquaringReaches(x, r - 1, num)

\* miller_rabin(num, witnesses)
MillerRabin(num, witnesses) ==
    IF num < 2 THEN FALSE
    ELSE IF num = 2 \/ num = 3 THEN TRUE
    ELSE IF num % 2 = 0 THEN FALSE
    ELSE LET r == TwoExponent(num - 1)
             d == OddPart(num - 1)
         IN  \A i \in 1..Len(witnesses) :
                witnesses[i] >= num \/ WitnessPasses(witnesses[i], num, r, d)

(* ------------------------------ nth_prime ----------------------------- *)

VARIABLES
    n,            \* the argument of the current call of nth_prime
    pc,           \* "idle", "call", "precount", "search", "fallback", "done", "error"
    lower_bound,  \* locals of nth_prime; 0 while not yet assigned
    upper_bound,
    prime_count,
    candidate,
    result,       \* <<>> until the call returns, then <<value>>
    prev,         \* what the previous call returned, <<>> if there was none
    fn,           \* SpecFn: "none", or the leaf function that was applied
    arg,          \* SpecFn: its argument
    verdict,      \* SpecFn: what miller_rabin returned
    bounds        \* SpecFn: what location_approximator returned

vars == <<n, pc, lower_bound, upper_bound, prime_count, candidate, result, prev,
          fn, arg, verdict, bounds>>

fnvars == <<fn, arg, verdict, bounds>>

\* the start candidate without the step from an even lower bound to the odd above
StartCandidateNoSkip(lower) == lower

\* "if lower_bound == 2 ... elif lower_bound % 2 == 0 ... else ..."
StartCandidate(lower) ==
    IF lower = 2 THEN 2
    ELSE IF lower % 2 = 0 THEN lower + 1
    ELSE lower

\* "if candidate == 2: candidate = 3  else: candidate += 2"
NextCandidate(c) == IF c = 2 THEN 3 ELSE c + 2

Init ==
    /\ n \in (-MaxNeg)..MaxN
    /\ pc = "call"
    /\ lower_bound = 0 /\ upper_bound = 0
    /\ prime_count = 0 /\ candidate = 0
    /\ result = <<>> /\ prev = <<>>
    /\ fn = "none" /\ arg = 0 /\ verdict = FALSE /\ bounds = Bounds(0, 0)

\* after the bounds are known: "prime_count = 1", "candidate = 3"
EnterPreCount(b) ==
    /\ lower_bound' = b.lower
    /\ upper_bound' = b.upper
    /\ prime_count' = 1
    /\ candidate' = 3
    /\ pc' = "precount"
    /\ UNCHANGED <<n, result, prev, fnvars>>

\* nth_prime up to the first loop: the n = 1 return, the estimator call (which
\* may raise), the initial count and candidate
Call ==
    /\ pc = "call"
    /\ IF n = 1
       THEN /\ result' = <<2>>
            /\ pc' = "done"
            /\ UNCHANGED <<n, lower_bound, upper_bound, prime_count, candidate,
                           prev, fnvars>>
       ELSE LET b == LocationApproximator(n)
            IN  IF b.raised
                THEN /\ pc' = "error"
                     /\ UNCHANGED <<n, lower_bound, upper_bound, prime_count,
                                    candidate, result, prev, fnvars>>
                ELSE EnterPreCount(b)

\* the same with an arbitrary pair of integers >= 2 returned by the estimator
CallAny ==
    /\ pc = "call"
    /\ IF n = 1
       THEN /\ result' = <<2>>
            /\ pc' = "done"
            /\ UNCHANGED <<n, lower_bound, upper_bound, prime_count, candidate,
                           prev, fnvars>>
       ELSE \E lo \in 2..MaxBound, up \in 2..MaxBound : EnterPreCount(Bounds(lo, up))

\* one evaluation of "while candidate < lower_bound" with its body, or, when
\* the condition is false, the choice of the start candidate
PreCount ==
    /\ pc = "precount"
    /\ candidate <= MaxCandidate
    /\ IF candidate < lower_bound
       THEN /\ prime_count' = IF MillerRabin(candidate, Witnesses)
                              THEN prime_count + 1 ELSE prime_count
            /\ candidate' = candidate + 2
            /\ pc' = pc
       ELSE /\ candidate' = StartCandidate(lower_bound)
            /\ pc' = "search"
            /\ UNCHANGED prime_count
    /\ UNCHANGED <<n, lower_bound, upper_bound, result, prev, fnvars>>

\* the body of either search loop: count the candidate if it is prime, return
\* it if that was the n-th, else advance
ScanBody(isprime, next) ==
    LET count == IF isprime THEN prime_count + 1 ELSE prime_count
    IN  /\ prime_count' = count
        /\ IF isprime /\ count = n
           THEN /\ result' = <<candidate>>
                /\ pc' = "done"
                /\ UNCHANGED candidate
           ELSE /\ candidate' = next
                /\ UNCHANGED <<result, pc>>

\* one evaluation of the bounded loop's condition with its body; then of the
\* fallback loop's condition with its body; then the final "return candidate"
Scan ==
    /\ pc \in {"search", "fallback"}
    /\ candidate <= MaxCandidate
    /\ IF pc = "search"
       THEN IF prime_count < n /\ candidate <= upper_bound
            THEN ScanBody(candidate = 2 \/ (candidate > 2 /\ MillerRabin(candidate, Witnesses)),
                          NextCandidate(candidate))
            ELSE /\ pc' = "fallback"
                 /\ UNCHANGED <<prime_count, candidate, result>>
       ELSE IF prime_count < n
            THEN ScanBody(MillerRabin(candidate, Witnesses), candidate + 2)
            ELSE /\ result' = <<candidate>>
                 /\ pc' = "done"
                 /\ UNCHANGED <<prime_count, candidate>>
    /\ UNCHANGED <<n, lower_bound, upper_bound, prev, fnvars>>

\* the caller's loop: after a call has returned, the next index is computed
NextCall ==
    /\ pc = "done"
    /\ n < MaxN
    /\ n' = n + 1
    /\ prev' = result
    /\ result' = <<>>
    /\ lower_bound' = 0 /\ upper_bound' = 0
    /\ prime_count' = 0 /\ candidate' = 0
    /\ pc' = "call"
    /\ UNCHANGED fnvars

Next == Call \/ PreCount \/ Scan \/ NextCall

Spec == Init /\ [][Next]_vars

InitAny ==
    /\ n \in 1..MaxNAny
    /\ pc = "call"
    /\ lower_bound = 0 /\ upper_bound = 0
    /\ prime_count = 0 /\ candidate = 0
    /\ result = <<>> /\ prev = <<>>
    /\ fn = "none" /\ arg = 0 /\ verdict = FALSE /\ bounds = Bounds(0, 0)

NextAny == CallAny \/ PreCount \/ Scan

\* the flow of control is sequential: a step that can be taken is taken
SpecAny == InitAny /\ [][NextAny]_vars /\ WF_vars(NextAny)

(* ------------------------- the leaf functions alone -------------------- *)

InitFn ==
    /\ arg \in (-MaxNeg)..MaxNum
    /\ fn = "none" /\ verdict = FALSE /\ bounds = Bounds(0, 0)
    /\ n = 0 /\ pc = "idle"
    /\ lower_bound = 0 /\ upper_bound = 0
    /\ prime_count = 0 /\ candidate = 0
    /\ result = <<>> /\ prev = <<>>

ApplyMillerRabin ==
    /\ fn = "none"
    /\ fn' = "miller_rabin"
    /\ verdict' = MillerRabin(arg, Witnesses)
    /\ UNCHANGED <<arg, bounds, n, pc, lower_bound, upper_bound, prime_count,
                   candidate, result, prev>>

ApplyLocationApproximator ==
    /\ fn = "none"
    /\ arg <= MaxN
    /\ fn' = "location_approximator"
    /\ bounds' = LocationApproximator(arg)
    /\ UNCHANGED <<arg, verdict, n, pc, lower_bound, upper_bound, prime_count,
                   candidate, result, prev>>

NextFn == ApplyMillerRabin \/ ApplyLocationApproximator

SpecFn == InitFn /\ [][NextFn]_vars

(* ------------------------------ reference ------------------------------ *)

\* primality by trial division
IsPrime(k) == k >= 2 /\ \A d \in 2..(k - 1) : d * d > k \/ k % d # 0

\* the number of primes strictly below k
NumPrimesBelow(k) == Cardinality({q \in 2..(k - 1) : IsPrime(q)})

\* p_k, the k-th prime, for k >= 1  (p_k <= k*k + 1)
NthPrimeRef(k) == CHOOSE p \in 2..(k * k + 1) : IsPrime(p) /\ NumPrimesBelow(p) = k - 1

(* ------------------------------- claims -------------------------------- *)

\* C1: a call nth_prime(n) with n >= 1 that has returned has returned p_n, the
\* n-th prime: a prime with exactly n - 1 primes below it.
C1_ReturnsNthPrime ==
    (pc = "done" /\ n >= 1) => result = <<NthPrimeRef(n)>>

\* C2: in the sequence nth_prime(1), nth_prime(2), ... each call returns more
\* than the call before it.
C2_StrictlyIncreasing ==
    (pc = "done" /\ prev # <<>>) => prev[1] < result[1]

\* C3: with the witnesses [2, 3, 5, 7, 11, 13, 17], miller_rabin(num) is true
\* exactly when trial division finds num prime.
C3_MillerRabinExact ==
    fn = "miller_rabin" => (verdict <=> IsPrime(arg))

C3_Witness ==
    /\ fn = "miller_rabin" /\ arg = 561 /\ ~verdict

\* C4: a call nth_prime(n) with n < 1 is either not yet started or has ended in
\* the error outcome; it returns nothing, and no count or candidate is ever set.
C4_InvalidIndexFails ==
    n < 1 => /\ pc \in {"idle", "call", "error"}
             /\ result = <<>>
             /\ prime_count = 0 /\ candidate = 0

C4_Witness ==
    /\ n < 1 /\ pc = "error" /\ result = <<>>

\* C5: for n >= 2 and a bound pair of integers >= 2 that does not contain p_n
\* (upper < p_n or lower > p_n), the call still returns exactly p_n.
C5_BoundFailureAbsorbed ==
    (/\ pc = "done" /\ n >= 2
     /\ (upper_bound < NthPrimeRef(n) \/ lower_bound > NthPrimeRef(n)))
    => result = <<NthPrimeRef(n)>>

\* C6: for n >= 1, location_approximator(n) returns a pair, odd-start
\* adjustment included, with 2 <= lower <= p_n <= upper.
C6_BoundsContainNthPrime ==
    (fn = "location_approximator" /\ arg >= 1) =>
        /\ ~bounds.raised
        /\ 2 <= bounds.lower
        /\ bounds.lower <= NthPrimeRef(arg)
        /\ NthPrimeRef(arg) <= bounds.upper

C6_Witness ==
    /\ fn = "location_approximator" /\ arg = 12
    /\ bounds.lower > 2 /\ bounds.lower < bounds.upper

\* the Rosser-Schoenfeld pair of the claim C7, with the odd-start adjustment
RosserSchoenfeldPair(k) ==
    LET a  == MathLog(k * Scale)
        b  == MathLog(a)
        lo == IntOf(k * (a + b - Scale))
        up == IntOf(k * (a + b)) + 1
    IN  [raised |-> FALSE,
         lower  |-> IF lo > 2 /\ lo % 2 = 0 THEN lo + 1 ELSE lo,
         upper  |-> up]

\* C7 as stated: for every n with 4 <= n < 688383, n = 4 and n = 5 included,
\* location_approximator(n) returns the Rosser-Schoenfeld pair.
C7_Original ==
    (fn = "location_approximator" /\ 4 <= arg /\ arg < 688383) =>
        bounds = RosserSchoenfeldPair(arg)

\* C7 amended: for 6 <= n < 688383, location_approximator(n) returns the
\* Rosser-Schoenfeld pair (lower made odd when even and > 2); for n = 4 and
\* n = 5 it returns (2, 30); (2,2), (3,3), (5,5) are returned for n = 1, 2, 3
\* and for no other n >= 1.
C7_RosserSchoenfeldFromSix ==
    (fn = "location_approximator" /\ arg >= 1 /\ arg < 688383) =>
        /\ arg >= 6 => bounds = RosserSchoenfeldPair(arg)
        /\ arg \in {4, 5} => bounds = [raised |-> FALSE, lower |-> 2, upper |-> 30]
        /\ arg = 1 => bounds = [raised |-> FALSE, lower |-> 2, upper |-> 2]
        /\ arg = 2 => bounds = [raised |-> FALSE, lower |-> 3, upper |-> 3]
        /\ arg = 3 => bounds = [raised |-> FALSE, lower |-> 5, upper |-> 5]
        /\ arg >= 4 => <<bounds.lower, bounds.upper>> \notin {<<2, 2>>, <<3, 3>>, <<5, 5>>}

C7_Witness ==
    /\ fn = "location_approximator" /\ arg = 10
    /\ bounds.lower = 21 /\ bounds.upper = 32

\* C8: whatever nth_prime(n), n >= 1, returns is a prime: 2, or an odd number
\* that miller_rabin with the fixed witnesses accepts.
C8_ReturnsOnlyPrimes ==
    (pc = "done" /\ n >= 1) =>
        /\ IsPrime(result[1])
        /\ \/ result[1] = 2
           \/ result[1] % 2 = 1 /\ MillerRabin(result[1], Witnesses)

C8_Witness ==
    /\ pc = "done" /\ n = 10 /\ result = <<29>>

\* C9: whenever the condition of the bounded or of the fallback loop is
\* evaluated, the first time included, the running count is the number of
\* primes strictly below the candidate.
C9_CountIsPrimesBelowCandidate ==
    (pc \in {"search", "fallback"} /\ n >= 1) =>
        prime_count = NumPrimesBelow(candidate)

\* C10: for n >= 1 and any bound pair, every step of the three loops moves the
\* candidate strictly upward, and the call returns, with the running count at
\* least n (n = 1 returns at once, before any count).
C10_Terminates ==
    /\ [][(pc' = pc /\ pc \in {"precount", "search", "fallback"})
              => candidate' > candidate]_vars
    /\ <>(pc = "done" /\ result # <<>> /\ (n = 1 \/ prime_count >= n))

C10_Witness ==
    /\ pc = "done" /\ n = 5 /\ upper_bound < candidate /\ lower_bound > 2
    /\ prime_count = n

====
